---- MODULE Spec2Model ----
(***************************************************************************)
(* Satellite data ingestion: the ingest-satellite-data edge function, the  *)
(* satellite-webhook edge function that calls it, the satellite_data table *)
(* they write, and the RiskMap component that reads it.                    *)
(*                                                                         *)
(* Units.  Coordinates are integers in 1e-4 degree (40.7128 is 407128);    *)
(* the four measurements are stored in hundredths after the code's         *)
(* Math.round(x * 100) / 100; intermediate real values are exact           *)
(* fractions over the denominator Den.  IEEE-754 rounding error (about     *)
(* 1e-15) is below the resolution of the model.                            *)
(*                                                                         *)
(* A dataPoints array is determined by the arguments of the                *)
(* fetchSatelliteData call that built it.  The state holds such an array   *)
(* as the record of those arguments (FetchCall); dataPoints(call) is the   *)
(* array itself and Rows the content of the table.                         *)
(***************************************************************************)
EXTENDS Integers, Sequences, FiniteSets, TLC

VARIABLES satellite_data, ing, wh, rng, clock, requests, sample, ui, page

vars == <<satellite_data, ing, wh, rng, clock, requests, sample, ui, page>>

(***************************************************************************)
(* Bounds of the model.                                                    *)
(***************************************************************************)
\* Math.random() returns k / RandSteps for k in 0..RandSteps; k = RandSteps
\* stands for the largest double below 1, whose products round to the
\* closed end of each range.
RandSteps == 3
\* external requests (direct ingestion posts and webhook deliveries) per run
MaxRequests == 1
\* analyses shown by the page, each rendering RiskMap with its result
MaxAnalyses == 1

(***************************************************************************)
(* JavaScript values.                                                      *)
(***************************************************************************)
Undef == [tag |-> "undefined"]
Null == [tag |-> "null"]
NaN == [tag |-> "NaN"]
Num(v) == [tag |-> "number", v |-> v]
Str(s) == [tag |-> "string", s |-> s]
Arr(items) == [tag |-> "array", items |-> items]

\* ToBoolean, for the values a request body can carry
Truthy(v) ==
  CASE v.tag = "number" -> v.v # 0
    [] v.tag = "string" -> v.s # ""
    [] v.tag = "array" -> TRUE
    [] v.tag = "object" -> TRUE
    [] OTHER -> FALSE

Min(a, b) == IF a <= b THEN a ELSE b
Max(a, b) == IF a >= b THEN a ELSE b

(***************************************************************************)
(* fetchSatelliteData                                                      *)
(***************************************************************************)
gridSize == 7
\* 0.045 degree
radius == 450
\* the diameter divided by the number of points, not of intervals
step_PerPoint == (radius * 2) \div gridSize
step == (radius * 2) \div (gridSize - 1)

\* denominator of the exact fractions: a draw is k / RandSteps and the
\* coefficients have one decimal
Den == 10 * RandSteps

\* Math.round of the fraction n / Den: nearest integer, halves upwards
Math_round(n) == (2 * n + Den) \div (2 * Den)
\* Math.round(x * 100) / 100 of the fraction n / Den, in hundredths
Round2(n) == (2 * 100 * n + Den) \div (2 * Den)

\* the four draws, as numerators over Den, of draws kc, kv, kw, kt
\* the cloud cover drawn as a percentage of the whole range
cloudCoverage_Percent(kc) == (kc * 100 * Den) \div RandSteps
cloudCoverage(kc) == (kc * 30 * Den) \div RandSteps
vegetationIndex(kv) == (2 * Den) \div 10 + (kv * 6 * Den) \div (10 * RandSteps)
waterIndex(kw) == 0 - (3 * Den) \div 10 + (kw * 5 * Den) \div (10 * RandSteps)
\* the temperature drawn between 15 and 40
temperature_Wide(kt) == 15 * Den + (kt * 25 * Den) \div RandSteps
temperature(kt) == 15 * Den + (kt * 15 * Den) \div RandSteps

clamp(n) == Min(100 * Den, Max(0, n))

floodRisk(kc, kw) ==
  clamp((waterIndex(kw) + (3 * Den) \div 10) * 100
        + ((100 * Den - cloudCoverage(kc)) * 3) \div 10)
droughtRisk(kv) == clamp((1 * Den - vegetationIndex(kv)) * 100)
\* the vegetation term weighted as in droughtRisk and the clamp left out
wildfireRisk_Unclamped(kt, kv) ==
  temperature(kt) * 2 + (1 * Den - vegetationIndex(kv)) * 100
wildfireRisk(kt, kv) ==
  clamp(temperature(kt) * 2 + (1 * Den - vegetationIndex(kv)) * 50)
\* the extra draw left out
stormRisk_NoExtraDraw(kc, ku) == clamp(cloudCoverage(kc) * 2)
stormRisk(kc, ku) ==
  clamp(cloudCoverage(kc) * 2 + (ku * 30 * Den) \div RandSteps)

\* lat - radius + (i * step); NaN when the coordinate is not a number
pointCoord(c, i) ==
  IF c.tag = "number" THEN Num(c.v - radius + (i * step)) ELSE NaN

\* one pushed data point: lattice position (i, j), draws rnd = <<kc, kv, kw,
\* kt, ku>> in the order of the Math.random() calls
SatellitePoint(lat, lng, i, j, rnd, now) ==
  [ latitude |-> pointCoord(lat, i),
    longitude |-> pointCoord(lng, j),
    acquisition_time |-> now,
    cloud_coverage |-> Round2(cloudCoverage(rnd[1])),
    vegetation_index |-> Round2(vegetationIndex(rnd[2])),
    water_index |-> Round2(waterIndex(rnd[3])),
    temperature |-> Round2(temperature(rnd[4])),
    risk_indicators |->
      [ flood_risk |-> Math_round(floodRisk(rnd[1], rnd[3])),
        drought_risk |-> Math_round(droughtRisk(rnd[2])),
        wildfire_risk |-> Math_round(wildfireRisk(rnd[4], rnd[2])),
        storm_risk |-> Math_round(stormRisk(rnd[1], rnd[5])) ],
    source |-> "copernicus-simulated" ]

\* number of distinct 5-tuples of draws
RngPeriod == (RandSteps + 1) ^ 5

\* the five draws of the point generated when the generator is in state c
Math_random(c) ==
  LET B == RandSteps + 1
  IN  << c % B, (c \div B) % B, (c \div (B * B)) % B,
         (c \div (B * B * B)) % B, (c \div (B * B * B * B)) % B >>

\* the dataPoints of one call, in push order (i outer, j inner)
fetchSatelliteData(lat, lng, seed, now) ==
  [ n \in 1..(gridSize * gridSize) |->
      SatellitePoint(lat, lng, (n - 1) \div gridSize, (n - 1) % gridSize,
                     Math_random((seed + n - 1) % RngPeriod), now) ]

\* a call of fetchSatelliteData: its arguments, the state of the random
\* generator and the time when it runs
FetchCall(lat, lng, seed, now) ==
  [lat |-> lat, lng |-> lng, seed |-> seed, now |-> now]
NoCall == [lat |-> Undef, lng |-> Undef, seed |-> 0, now |-> 0]
\* the array the call returns
dataPoints(call) ==
  IF call = NoCall THEN <<>>
  ELSE fetchSatelliteData(call.lat, call.lng, call.seed, call.now)

(***************************************************************************)
(* ingest-satellite-data: the request handler                              *)
(***************************************************************************)
Loc(lat, lng) == [tag |-> "object", lat |-> lat, lng |-> lng]

defaultLocations ==
  << Loc(Num(407128), Num(-740060)),
     Loc(Num(340522), Num(-1182437)),
     Loc(Num(297604), Num(-953698)),
     Loc(Num(257617), Num(-801918)),
     Loc(Num(377749), Num(-1224194)) >>

\* a request body that req.json() parses to an object
Body(trigger, source, latitude, longitude, locations) ==
  [ tag |-> "object", trigger |-> trigger, source |-> source,
    latitude |-> latitude, longitude |-> longitude, locations |-> locations ]
\* a request without a body: req.json() rejects
EmptyBody == [tag |-> "empty"]

\* the fallback to defaultLocations left out
locationsToProcess_NoDefault(body) ==
  IF Truthy(body.locations) THEN body.locations.items
  ELSE << Loc(body.latitude, body.longitude) >>
\* locations || (latitude && longitude ? [{lat, lng}] : defaultLocations)
locationsToProcess(body) ==
  IF Truthy(body.locations) THEN body.locations.items
  ELSE IF Truthy(body.latitude) /\ Truthy(body.longitude)
       THEN << Loc(body.latitude, body.longitude) >>
       ELSE defaultLocations

\* the summary response of a run that reached the end of the loop
IngestSummary(body, locs, totalInserted, now) ==
  [ status |-> 200,
    success |-> TRUE,
    message |-> Str("Satellite data ingestion complete"),
    error |-> Undef,
    trigger |-> body.trigger,
    source |-> body.source,
    locationsProcessed |-> Num(Len(locs)),
    dataPointsInserted |-> Num(totalInserted),
    timestamp |-> Num(now) ]

\* the catch branch without its status option: the default status 200
IngestCatch_NoStatus(errorMessage, now) ==
  [ status |-> 200,
    success |-> FALSE,
    message |-> Undef,
    error |-> Str(errorMessage),
    trigger |-> Undef,
    source |-> Undef,
    locationsProcessed |-> Undef,
    dataPointsInserted |-> Undef,
    timestamp |-> Num(now) ]
\* the response of the catch branch
IngestCatch(errorMessage, now) ==
  [ status |-> 500,
    success |-> FALSE,
    message |-> Undef,
    error |-> Str(errorMessage),
    trigger |-> Undef,
    source |-> Undef,
    locationsProcessed |-> Undef,
    dataPointsInserted |-> Undef,
    timestamp |-> Num(now) ]

IngestIdle ==
  [ pc |-> "idle", caller |-> "none", env |-> "configured", body |-> Undef,
    locationsToProcess |-> <<>>, i |-> 1, totalInserted |-> 0,
    satelliteData |-> NoCall, log |-> <<>>, exception |-> Undef,
    response |-> Undef ]

\* an exception reaches the catch branch of the handler
IngestThrow(h, errorMessage, now) ==
  [ h EXCEPT !.pc = "done", !.exception = Str(errorMessage),
             !.satelliteData = NoCall,
             !.response = IngestCatch(errorMessage, now) ]

\* the client built without its credentials being looked at
IngestEntry_NoClientCheck(caller, env, body, now) ==
  LET h == [ IngestIdle EXCEPT !.pc = "loop", !.caller = caller,
                               !.env = env, !.body = body ]
  IN  IF body.tag # "object"
        THEN IngestThrow(h, "Unexpected end of JSON input", now)
      ELSE [ h EXCEPT !.locationsToProcess = locationsToProcess(body) ]
\* from the arrival of the request to the head of the loop: req.json(),
\* createClient, getCopernicusToken, locationsToProcess, totalInserted = 0
IngestEntry(caller, env, body, now) ==
  LET h == [ IngestIdle EXCEPT !.pc = "loop", !.caller = caller,
                               !.env = env, !.body = body ]
  IN  IF body.tag # "object"
        THEN IngestThrow(h, "Unexpected end of JSON input", now)
      ELSE IF env # "configured"
        THEN IngestThrow(h, "supabaseUrl is required.", now)
      ELSE [ h EXCEPT !.locationsToProcess = locationsToProcess(body) ]

\* the list walked from its end
IngestIteration_Reversed(h, seed, now) ==
  LET location ==
        h.locationsToProcess[Len(h.locationsToProcess) + 1 - h.i]
  IN  IF location.tag # "object"
        THEN IngestThrow(h, "Cannot read properties of null (reading 'lat')",
                         now)
      ELSE [ h EXCEPT !.pc = "insert",
                      !.satelliteData =
                        FetchCall(location.lat, location.lng, seed, now) ]
\* head of one loop iteration: reading location.lat of a null element
\* throws; otherwise the points are generated and the insert is issued
IngestIteration(h, seed, now) ==
  LET location == h.locationsToProcess[h.i]
  IN  IF location.tag # "object"
        THEN IngestThrow(h, "Cannot read properties of null (reading 'lat')",
                         now)
      ELSE [ h EXCEPT !.pc = "insert",
                      !.satelliteData =
                        FetchCall(location.lat, location.lng, seed, now) ]

\* an insert error thrown instead of logged: the run ends in the catch branch
IngestInserted_Abort(h, rows, error) ==
  IF error THEN IngestThrow(h, "insert failed", h.satelliteData.now)
  ELSE [ h EXCEPT !.pc = "loop",
                  !.i = h.i + 1,
                  !.satelliteData = NoCall,
                  !.totalInserted = h.totalInserted + Len(rows),
                  !.log = Append(h.log,
                                 [ location |-> h.locationsToProcess[h.i],
                                   error |-> error,
                                   points |-> Len(rows) ]) ]
\* the points counted whether or not the insert returned an error
IngestInserted_CountsFailed(h, rows, error) ==
  [ h EXCEPT !.pc = "loop",
             !.i = h.i + 1,
             !.satelliteData = NoCall,
             !.totalInserted = h.totalInserted + Len(rows),
             !.log = Append(h.log,
                            [ location |-> h.locationsToProcess[h.i],
                              error |-> error,
                              points |-> Len(rows) ]) ]
\* an insert that returned an error issued again for the same location
IngestInserted_Retry(h, rows, error) ==
  [ h EXCEPT !.pc = "loop",
             !.i = IF error THEN h.i ELSE h.i + 1,
             !.satelliteData = NoCall,
             !.totalInserted =
               IF error THEN h.totalInserted
               ELSE h.totalInserted + Len(rows),
             !.log = Append(h.log,
                            [ location |-> h.locationsToProcess[h.i],
                              error |-> error,
                              points |-> Len(rows) ]) ]
\* the insert has answered with or without an error
IngestInserted(h, rows, error) ==
  [ h EXCEPT !.pc = "loop",
             !.i = h.i + 1,
             !.satelliteData = NoCall,
             !.totalInserted =
               IF error THEN h.totalInserted
               ELSE h.totalInserted + Len(rows),
             !.log = Append(h.log,
                            [ location |-> h.locationsToProcess[h.i],
                              error |-> error,
                              points |-> Len(rows) ]) ]

\* the loop is exhausted: the summary is returned
IngestReturn(h, now) ==
  [ h EXCEPT !.pc = "done",
             !.response = IngestSummary(h.body, h.locationsToProcess,
                                        h.totalInserted, now) ]

\* latitude and longitude are NOT NULL columns and NaN is sent as null
InsertRejected(rows) ==
  \E n \in 1..Len(rows) :
    rows[n].latitude.tag # "number" \/ rows[n].longitude.tag # "number"

(***************************************************************************)
(* satellite-webhook: the request handler                                  *)
(***************************************************************************)
\* the Pub/Sub push envelope and what it carries
Envelope(message) == [tag |-> "object", message |-> message]
Message(data, messageId) ==
  [tag |-> "object", data |-> data, messageId |-> Str(messageId)]
\* message.data: the base64 encoding of a text, or a string atob rejects
Base64(text) == [tag |-> "base64", text |-> text]
NotBase64 == [tag |-> "string", s |-> "%%%"]
\* a decoded text: the JSON encoding of a value, or a text JSON.parse rejects
JsonText(value) == [tag |-> "json", value |-> value]
PlainText == [tag |-> "text"]
Payload(eventType, location) ==
  [ tag |-> "object", eventType |-> Str(eventType),
    satellite |-> Str("Sentinel-2"), location |-> location,
    severity |-> Str("high") ]
EventLocation(latitude, longitude) ==
  [tag |-> "object", latitude |-> latitude, longitude |-> longitude]

\* location?.latitude, location?.longitude
OptLatitude(location) ==
  IF location.tag = "object" THEN location.latitude ELSE Undef
\* a missing longitude replaced by that of New York
OptLongitude_Defaulted(location) ==
  IF location.tag = "object" /\ location.longitude.tag = "number"
    THEN location.longitude ELSE Num(-740060)
OptLongitude(location) ==
  IF location.tag = "object" THEN location.longitude ELSE Undef

\* the response after a processed event
WebhookSuccess(messageId, eventType, ingestResult) ==
  [ status |-> 200,
    success |-> TRUE,
    message |-> Str("Satellite event processed successfully"),
    error |-> Undef,
    messageId |-> messageId,
    eventType |-> eventType,
    dataPointsProcessed |-> ingestResult.dataPointsInserted,
    timestamp |-> Undef ]

\* the catch branch answering as the ingestion function does, with 500
WebhookCatch_Status500(errorMessage, now) ==
  [ status |-> 500,
    success |-> FALSE,
    message |-> Undef,
    error |-> Str(errorMessage),
    messageId |-> Undef,
    eventType |-> Undef,
    dataPointsProcessed |-> Undef,
    timestamp |-> Num(now) ]
\* the response of the catch branch
WebhookCatch(errorMessage, now) ==
  [ status |-> 200,
    success |-> FALSE,
    message |-> Undef,
    error |-> Str(errorMessage),
    messageId |-> Undef,
    eventType |-> Undef,
    dataPointsProcessed |-> Undef,
    timestamp |-> Num(now) ]

WebhookIdle ==
  [ pc |-> "idle", env |-> "configured", body |-> Undef,
    ingestBody |-> Undef, ingestResult |-> Undef, exception |-> Undef,
    response |-> Undef ]

WebhookThrow(w, errorMessage, now) ==
  [ w EXCEPT !.pc = "done", !.exception = Str(errorMessage),
             !.response = WebhookCatch(errorMessage, now) ]

\* a failed atob ignored: the event is relayed as one without a location
WebhookEntry_DecodeIgnored(env, body, now) ==
  LET w == [WebhookIdle EXCEPT !.pc = "fetch", !.env = env, !.body = body]
  IN  IF body.tag # "object"
        THEN WebhookThrow(w, "Unexpected end of JSON input", now)
      ELSE IF ~Truthy(body.message)
        THEN WebhookThrow(w, "Invalid Pub/Sub message format", now)
      ELSE IF body.message.data.tag # "base64"
        THEN [ w EXCEPT !.ingestBody =
                 Body(Str("pubsub"), Str("google-cloud"), Undef, Undef,
                      Undef) ]
      ELSE IF body.message.data.text.tag # "json"
        THEN WebhookThrow(w, "Unexpected token in JSON", now)
      ELSE IF body.message.data.text.value.tag # "object"
        THEN WebhookThrow(w, "Cannot destructure property of null", now)
      ELSE IF env # "configured"
        THEN WebhookThrow(w, "supabaseUrl is required.", now)
      ELSE LET messageData == body.message.data.text.value
           IN  [ w EXCEPT !.ingestBody =
                   Body(Str("pubsub"), Str("google-cloud"),
                        OptLatitude(messageData.location),
                        OptLongitude(messageData.location), Undef) ]
\* from the arrival of the request to the fetch of the ingestion function
WebhookEntry(env, body, now) ==
  LET w == [WebhookIdle EXCEPT !.pc = "fetch", !.env = env, !.body = body]
  IN  IF body.tag # "object"
        THEN WebhookThrow(w, "Unexpected end of JSON input", now)
      ELSE IF ~Truthy(body.message)
        THEN WebhookThrow(w, "Invalid Pub/Sub message format", now)
      ELSE IF body.message.data.tag # "base64"
        THEN WebhookThrow(w, "Failed to decode base64", now)
      ELSE IF body.message.data.text.tag # "json"
        THEN WebhookThrow(w, "Unexpected token in JSON", now)
      ELSE IF body.message.data.text.value.tag # "object"
        THEN WebhookThrow(w, "Cannot destructure property of null", now)
      ELSE IF env # "configured"
        THEN WebhookThrow(w, "supabaseUrl is required.", now)
      ELSE LET messageData == body.message.data.text.value
           IN  [ w EXCEPT !.ingestBody =
                   Body(Str("pubsub"), Str("google-cloud"),
                        OptLatitude(messageData.location),
                        OptLongitude(messageData.location), Undef) ]

\* ingestResponse.json() has answered: the event is logged and acknowledged
WebhookResult(w, ingestResult) ==
  [ w EXCEPT !.pc = "done",
             !.ingestResult = ingestResult,
             !.response =
               WebhookSuccess(w.body.message.messageId,
                              w.body.message.data.text.value.eventType,
                              ingestResult) ]

(***************************************************************************)
(* satellite_data: the columns, the insert and the overlay query           *)
(***************************************************************************)
\* the powers of ten that a signed 32-bit integer holds
Powers ==
  << 1, 10, 100, 1000, 10000, 100000, 1000000, 10000000, 100000000,
     1000000000 >>
Pow10(n) == Powers[n + 1]
Abs(n) == IF n < 0 THEN 0 - n ELSE n

\* coordinates are fractions over 10000, measurements over 100
CoordDen == 10000
MeasureDen == 100

\* the number n / den written to a DECIMAL(precision, scale) column: rounded
\* to scale decimals, halves away from zero; a value with more than
\* precision - scale integer digits is a numeric field overflow
Decimal(n, den, precision, scale) ==
  LET one == Pow10(scale)
      rest == Abs(n) % den
      digits == IF one >= den THEN rest * (one \div den)
                ELSE (2 * rest * one + den) \div (2 * den)
      whole == Abs(n) \div den + digits \div one
  IN  IF whole >= Pow10(precision - scale) THEN [tag |-> "overflow"]
      ELSE [ tag |-> "numeric", negative |-> n < 0, whole |-> whole,
             digits |-> digits % one, scale |-> scale ]

\* the JSON number returned for a numeric value, as a fraction over den
NumberOf(d, den) ==
  LET one == Pow10(d.scale)
      rest == IF one >= den THEN d.digits \div (one \div den)
              ELSE d.digits * (den \div one)
      n == d.whole * den + rest
  IN  IF d.negative THEN 0 - n ELSE n

\* the coordinates in columns declared as those of the measurements
StoredRow_CoordinatesTwoDecimals(point, id) ==
  [ id |-> id,
    latitude |-> Decimal(point.latitude.v, CoordDen, 5, 2),
    longitude |-> Decimal(point.longitude.v, CoordDen, 6, 2),
    acquisition_time |-> point.acquisition_time,
    cloud_coverage |-> Decimal(point.cloud_coverage, MeasureDen, 5, 2),
    vegetation_index |-> Decimal(point.vegetation_index, MeasureDen, 5, 2),
    water_index |-> Decimal(point.water_index, MeasureDen, 5, 2),
    temperature |-> Decimal(point.temperature, MeasureDen, 6, 2),
    risk_indicators |-> point.risk_indicators,
    source |-> point.source,
    processing_status |-> "processed" ]
\* the row kept for an inserted point; id stands for the generated UUID.
\* created_at and updated_at, which no reader uses, are left out
StoredRow(point, id) ==
  [ id |-> id,
    latitude |-> Decimal(point.latitude.v, CoordDen, 10, 8),
    longitude |-> Decimal(point.longitude.v, CoordDen, 11, 8),
    acquisition_time |-> point.acquisition_time,
    cloud_coverage |-> Decimal(point.cloud_coverage, MeasureDen, 5, 2),
    vegetation_index |-> Decimal(point.vegetation_index, MeasureDen, 5, 2),
    water_index |-> Decimal(point.water_index, MeasureDen, 5, 2),
    temperature |-> Decimal(point.temperature, MeasureDen, 6, 2),
    risk_indicators |-> point.risk_indicators,
    source |-> point.source,
    processing_status |-> "processed" ]

\* the object the client receives for a row: numeric columns as numbers, the
\* timestamp as a string in the format of the database
ReadRow(row) ==
  [ id |-> row.id,
    latitude |-> Num(NumberOf(row.latitude, CoordDen)),
    longitude |-> Num(NumberOf(row.longitude, CoordDen)),
    acquisition_time |-> [tag |-> "timestamptz", t |-> row.acquisition_time],
    cloud_coverage |-> NumberOf(row.cloud_coverage, MeasureDen),
    vegetation_index |-> NumberOf(row.vegetation_index, MeasureDen),
    water_index |-> NumberOf(row.water_index, MeasureDen),
    temperature |-> NumberOf(row.temperature, MeasureDen),
    risk_indicators |-> row.risk_indicators,
    source |-> row.source,
    processing_status |-> row.processing_status ]

\* a batch inserted where a batch of the same location is replaced
Insert_Upsert(table, batch) ==
  Append(SelectSeq(table, LAMBDA b : b.lat # batch.lat \/ b.lng # batch.lng),
         batch)
\* .from('satellite_data').insert(satelliteData)
Insert(table, batch) == Append(table, batch)

\* the points of the batches of the table, oldest first
RECURSIVE RowsOf(_)
RowsOf(batches) ==
  IF batches = <<>> THEN <<>>
  ELSE dataPoints(Head(batches)) \o RowsOf(Tail(batches))
Rows == RowsOf(satellite_data)
\* the rows of the table, in the order of their insertion
TableRows(table) ==
  LET points == RowsOf(table)
  IN  [n \in 1..Len(points) |-> StoredRow(points[n], n)]

\* 0.05 degree
BoxHalfWidth == 500
\* .gte('latitude', latitude - 0.05).lte('latitude', latitude + 0.05)
\* .gte('longitude', longitude - 0.05).lte('longitude', longitude + 0.05)
InBox(row, latitude, longitude) ==
  /\ \E lat \in {NumberOf(row.latitude, CoordDen)} :
       /\ lat >= latitude.v - BoxHalfWidth
       /\ lat <= latitude.v + BoxHalfWidth
  /\ \E lng \in {NumberOf(row.longitude, CoordDen)} :
       /\ lng >= longitude.v - BoxHalfWidth
       /\ lng <= longitude.v + BoxHalfWidth

Reverse(seq) == [k \in 1..Len(seq) |-> seq[Len(seq) + 1 - k]]
\* the order in which the database returns rows of equal acquisition_time
\* is not specified: the order of insertion or its reverse
TieOrders == {"heap", "reverse"}

\* the oldest rows first
RECURSIVE OrderByAcquisitionTime_Ascending(_, _)
OrderByAcquisitionTime_Ascending(rows, ties) ==
  IF rows = <<>> THEN <<>>
  ELSE LET times == {rows[k].acquisition_time : k \in 1..Len(rows)}
           oldest == CHOOSE t \in times : \A o \in times : t <= o
           first == SelectSeq(rows, LAMBDA r : r.acquisition_time = oldest)
           rest == SelectSeq(rows, LAMBDA r : r.acquisition_time # oldest)
       IN  (IF ties = "heap" THEN first ELSE Reverse(first))
             \o OrderByAcquisitionTime_Ascending(rest, ties)
\* .order('acquisition_time', { ascending: false })
RECURSIVE OrderByAcquisitionTime(_, _)
OrderByAcquisitionTime(rows, ties) ==
  IF rows = <<>> THEN <<>>
  ELSE LET times == {rows[k].acquisition_time : k \in 1..Len(rows)}
           latest == CHOOSE t \in times : \A o \in times : t >= o
           first == SelectSeq(rows, LAMBDA r : r.acquisition_time = latest)
           rest == SelectSeq(rows, LAMBDA r : r.acquisition_time # latest)
       IN  (IF ties = "heap" THEN first ELSE Reverse(first))
             \o OrderByAcquisitionTime(rest, ties)

\* .limit(100)
QueryLimit == 100
Limit(rows, n) == SubSeq(rows, 1, Min(n, Len(rows)))

\* the data of the overlay query of RiskMap for the center (latitude,
\* longitude), over the rows of the table
SelectSatelliteData(rows, latitude, longitude, ties) ==
  LET matching == SelectSeq(rows,
                            LAMBDA row : InBox(row, latitude, longitude))
      returned == Limit(OrderByAcquisitionTime(matching, ties), QueryLimit)
  IN  [k \in 1..Len(returned) |-> ReadRow(returned[k])]

(***************************************************************************)
(* RiskMap: the state of the component, its effects and handlers           *)
(***************************************************************************)
\* an outstanding request of the component, issued by render number id
Request(id, latitude, longitude) ==
  [id |-> id, latitude |-> latitude, longitude |-> longitude]
NoQuery == [request |-> Undef, data |-> <<>>, error |-> FALSE]

\* the component is not rendered; the useState initial values
RiskMapUnmounted ==
  [ mounted |-> FALSE, analyses |-> 0,
    latitude |-> Undef, longitude |-> Undef, riskScore |-> Undef,
    gridData |-> <<>>, satelliteData |-> <<>>, loading |-> TRUE,
    showSatelliteLayer |-> FALSE, lastUpdate |-> Null, mapInstance |-> Null,
    satelliteRequests |-> {}, demographicsRequests |-> {},
    query |-> NoQuery ]

\* the satellite markers drawn for the points
SatelliteMarkers(points) ==
  [k \in 1..Len(points) |-> <<points[k].latitude, points[k].longitude>>]

\* the map built whether or not there is a grid to draw
MapEffect_NoGridCheck(u) ==
  [ u EXCEPT !.mapInstance =
      [ tag |-> "object",
        view |-> <<u.latitude, u.longitude>>,
        riskMarkers |-> u.gridData,
        satelliteMarkers |->
          IF u.showSatelliteLayer /\ Len(u.satelliteData) > 0
            THEN SatelliteMarkers(u.satelliteData)
            ELSE <<>> ] ]
\* the map rendering effect, run when one of latitude, longitude, riskScore,
\* gridData has changed: the cleanup of the previous run removes the map,
\* then the map is built again unless gridData is empty
MapEffect(u) ==
  IF Len(u.gridData) = 0 THEN [u EXCEPT !.mapInstance = Null]
  ELSE [ u EXCEPT !.mapInstance =
           [ tag |-> "object",
             view |-> <<u.latitude, u.longitude>>,
             riskMarkers |-> u.gridData,
             satelliteMarkers |->
               IF u.showSatelliteLayer /\ Len(u.satelliteData) > 0
                 THEN SatelliteMarkers(u.satelliteData)
                 ELSE <<>> ] ]

\* RiskMap rendered with the result a of an analysis: the first render
\* mounts it; the effects run whose dependencies have changed (riskFactors
\* is a new object in every result)
RiskMapRender(u, a, id) ==
  IF ~u.mounted
    THEN [ RiskMapUnmounted EXCEPT
             !.mounted = TRUE,
             !.latitude = a.latitude,
             !.longitude = a.longitude,
             !.riskScore = a.overallScore,
             !.satelliteRequests = {Request(id, a.latitude, a.longitude)},
             !.demographicsRequests = {Request(id, a.latitude, a.longitude)} ]
  ELSE LET moved == a.latitude # u.latitude \/ a.longitude # u.longitude
           v == [ u EXCEPT
                    !.latitude = a.latitude,
                    !.longitude = a.longitude,
                    !.riskScore = a.overallScore,
                    !.loading = TRUE,
                    !.satelliteRequests =
                      IF moved
                        THEN @ \cup {Request(id, a.latitude, a.longitude)}
                        ELSE @,
                    !.demographicsRequests =
                      @ \cup {Request(id, a.latitude, a.longitude)} ]
       IN  IF moved \/ a.overallScore # u.riskScore THEN MapEffect(v) ELSE v

\* the overlay query r has answered: an error is logged, an empty answer
\* is dropped, other data replace satelliteData and set lastUpdate
SatelliteQueryAnswered(u, r, data, error) ==
  LET v == [ u EXCEPT !.satelliteRequests = @ \ {r},
                      !.query = [ request |-> r, data |-> data,
                                  error |-> error ] ]
  IN  IF ~error /\ Len(data) > 0
        THEN [ v EXCEPT !.satelliteData = data,
                        !.lastUpdate = data[1].acquisition_time ]
        ELSE v

\* a risk zone of the grid returned for request r
GridPoint(r) == [lat |-> r.latitude, lng |-> r.longitude]

\* enrich-demographics has answered request r: setGridData(data.gridData ||
\* []) unless it failed, and setLoading(false) in either case
DemographicsAnswered(u, r, gridData, error) ==
  LET v == [ u EXCEPT !.demographicsRequests = @ \ {r},
                      !.loading = FALSE ]
  IN  IF error THEN v ELSE MapEffect([v EXCEPT !.gridData = gridData])

\* onClick of the 'Satellite Data' button
SatelliteButtonClicked(u) ==
  [u EXCEPT !.showSatelliteLayer = ~u.showSatelliteLayer]

\* ---------------------------------------------------------------------
\* Index page (src/pages/Index.tsx): the held risk profile, the analyzing
\* flag, the analyze-location calls that have not answered, the last toast.
\* ---------------------------------------------------------------------
IndexInitial ==
  [ riskData |-> Null, isAnalyzing |-> FALSE, analyzeRequests |-> {},
    calls |-> 0, toast |-> "none" ]

\* the profile the page keeps of a response
RiskData(data) ==
  [ latitude |-> data.latitude, longitude |-> data.longitude,
    overallScore |-> data.overallScore ]
\* a response that carries no body
NoData == {Null, Undef}

\* analyzeLocation up to its await
AnalyzeClicked(p, lat, lng) ==
  [ p EXCEPT !.isAnalyzing = TRUE,
             !.toast = "info",
             !.calls = p.calls + 1,
             !.analyzeRequests = @ \cup {Request(p.calls + 1, lat, lng)} ]

\* a failed call clears the profile that was held
AnalysisAnswered_ClearsOnError(p, r, data, error) ==
  LET q == [ p EXCEPT !.analyzeRequests = @ \ {r}, !.isAnalyzing = FALSE ]
  IN  IF error \/ data \in NoData
        THEN [ q EXCEPT !.riskData = Null, !.toast = "error" ]
        ELSE [ q EXCEPT !.riskData = RiskData(data), !.toast = "success" ]
\* analyzeLocation after its await: an error, or a response without a body
\* (data.latitude throws), ends in the catch branch
AnalysisAnswered(p, r, data, error) ==
  LET q == [ p EXCEPT !.analyzeRequests = @ \ {r}, !.isAnalyzing = FALSE ]
  IN  IF error \/ data \in NoData
        THEN [ q EXCEPT !.toast = "error" ]
        ELSE [ q EXCEPT !.riskData = RiskData(data), !.toast = "success" ]

\* handleBackToHome
BackToHomeClicked(p) == [ p EXCEPT !.riskData = Null ]

(***************************************************************************)
(* The requests the model sends                                            *)
(***************************************************************************)
Envs == {"configured", "missing"}

NewYork == Loc(Num(407128), Num(-740060))
LosAngeles == Loc(Num(340522), Num(-1182437))
\* an element without lat and lng
EmptyLoc == Loc(Undef, Undef)

\* the (latitude, longitude) pairs of the requests with coordinates
Coordinates ==
  { <<Num(407128), Num(-740060)>>, <<Num(-900000), Num(1800000)>>,
    <<Num(0), Num(-740060)>>, <<Num(407128), Num(0)>> }

LocationLists ==
  { <<>>, <<NewYork>>, <<NewYork, LosAngeles>>,
    <<Loc(Num(0), Num(0)), NewYork, LosAngeles>>,
    <<EmptyLoc, NewYork>>, <<NewYork, Null>>, <<NewYork, Null, LosAngeles>> }

IngestBodies ==
  {EmptyBody}
  \cup {Body(Str("cron"), Str("pg_cron"), Undef, Undef, Undef)}
  \cup {Body(Str("manual"), Str("api"), c[1], c[2], Undef) :
          c \in Coordinates}
  \cup {Body(Str("manual"), Str("api"), Num(407128), Undef, Undef)}
  \cup {Body(Str("manual"), Str("api"), Undef, Undef, Arr(l)) :
          l \in LocationLists}
  \cup {Body(Str("manual"), Str("api"), Num(407128), Num(-740060),
             Arr(<<LosAngeles>>))}

EventLocations ==
  { Undef,
    EventLocation(Num(407128), Num(-740060)),
    EventLocation(Num(0), Num(-740060)),
    EventLocation(Num(407128), Undef) }

Envelopes ==
  { EmptyBody,
    Envelope(Undef),
    Envelope(Message(NotBase64, "m1")),
    Envelope(Message(Base64(PlainText), "m1")),
    Envelope(Message(Base64(JsonText(Null)), "m1")) }
  \cup { Envelope(Message(Base64(JsonText(Payload("new_sentinel_data", l))),
                          "m1")) : l \in EventLocations }

(***************************************************************************)
(* State and actions                                                       *)
(***************************************************************************)
NoSample == [pc |-> "none"]

\* the state the random generator starts in: the first point of a run draws
\* the upper end of every range, the second the lower end, and the following
\* points step through the tuples (SpecPoint covers every tuple)
Seeds == {RngPeriod - 1}

Init ==
  /\ satellite_data = <<>>
  /\ ing = IngestIdle
  /\ wh = WebhookIdle
  /\ rng \in Seeds
  /\ clock = 0
  /\ requests = 0
  /\ sample = NoSample
  /\ ui = RiskMapUnmounted
  /\ page = IndexInitial

Quiet == ing.pc \in {"idle", "done"} /\ wh.pc \in {"idle", "done"}

\* a client (curl, the cron job) posts to ingest-satellite-data
PostIngest ==
  /\ Quiet
  /\ requests < MaxRequests
  /\ \E body \in IngestBodies, env \in Envs :
       ing' = IngestEntry("direct", env, body, clock)
  /\ requests' = requests + 1
  /\ clock' = clock + 1
  /\ wh' = WebhookIdle
  /\ UNCHANGED <<satellite_data, rng, sample, ui, page>>

\* the head of a loop iteration, up to the awaited insert
IngestFetch ==
  /\ ing.pc = "loop"
  /\ ing.i <= Len(ing.locationsToProcess)
  /\ ing' = IngestIteration(ing, rng, clock)
  /\ rng' = IF ing'.pc = "insert"
              THEN (rng + gridSize * gridSize) % RngPeriod ELSE rng
  /\ UNCHANGED <<satellite_data, wh, clock, requests, sample, ui, page>>

\* the database answers the bulk insert: all rows are stored, or none
InsertReturns ==
  /\ ing.pc = "insert"
  /\ \E rows \in {dataPoints(ing.satelliteData)} :
         \E error \in (IF InsertRejected(rows) THEN {TRUE} ELSE BOOLEAN) :
           /\ satellite_data' = IF error THEN satellite_data
                                ELSE Insert(satellite_data, ing.satelliteData)
           /\ ing' = IngestInserted(ing, rows, error)
  /\ clock' = clock + 1
  /\ UNCHANGED <<wh, rng, requests, sample, ui, page>>

\* the loop has ended: the summary response
IngestRespond ==
  /\ ing.pc = "loop"
  /\ ing.i > Len(ing.locationsToProcess)
  /\ ing' = IngestReturn(ing, clock)
  /\ UNCHANGED <<satellite_data, wh, rng, clock, requests, sample, ui, page>>

\* Pub/Sub pushes an envelope to satellite-webhook
PostWebhook ==
  /\ Quiet
  /\ requests < MaxRequests
  /\ \E body \in Envelopes, env \in Envs :
       wh' = WebhookEntry(env, body, clock)
  /\ requests' = requests + 1
  /\ clock' = clock + 1
  /\ ing' = IngestIdle
  /\ UNCHANGED <<satellite_data, rng, sample, ui, page>>

\* fetch rejects: the ingestion function is not reached
WebhookFetchFails ==
  /\ wh.pc = "fetch"
  /\ wh' = WebhookThrow(wh, "error sending request", clock)
  /\ UNCHANGED <<satellite_data, ing, rng, clock, requests, sample, ui, page>>

\* the gateway answers with a body that is not JSON: ingestResponse.json()
\* rejects
WebhookNotJson ==
  /\ wh.pc = "fetch"
  /\ wh' = WebhookThrow(wh, "Unexpected token < in JSON", clock)
  /\ UNCHANGED <<satellite_data, ing, rng, clock, requests, sample, ui, page>>

\* the fetch reaches ingest-satellite-data
WebhookInvoke ==
  /\ wh.pc = "fetch"
  /\ ing.pc \in {"idle", "done"}
  /\ \E env \in Envs :
       ing' = IngestEntry("webhook", env, wh.ingestBody, clock)
  /\ wh' = [wh EXCEPT !.pc = "awaiting"]
  /\ UNCHANGED <<satellite_data, rng, clock, requests, sample, ui, page>>

\* the response of the ingestion function arrives and parses
WebhookResume ==
  /\ wh.pc = "awaiting"
  /\ ing.pc = "done"
  /\ wh' = WebhookResult(wh, ing.response)
  /\ UNCHANGED <<satellite_data, ing, rng, clock, requests, sample, ui, page>>

Next ==
  \/ PostIngest
  \/ IngestFetch
  \/ InsertReturns
  \/ IngestRespond
  \/ PostWebhook
  \/ WebhookFetchFails
  \/ WebhookNotJson
  \/ WebhookInvoke
  \/ WebhookResume

Spec == Init /\ [][Next]_vars

TypeOK ==
  /\ ing.pc \in {"idle", "loop", "insert", "done"}
  /\ wh.pc \in {"idle", "fetch", "awaiting", "done"}
  /\ requests \in 0..MaxRequests

(***************************************************************************)
(* One generated point under every combination of draws                    *)
(***************************************************************************)
\* the lattice positions sampled: the two corners and the centre
SamplePositions == {<<0, 0>>, <<3, 3>>, <<6, 6>>}

InitPoint ==
  /\ satellite_data = <<>>
  /\ ing = IngestIdle
  /\ wh = WebhookIdle
  /\ rng = 0
  /\ clock = 0
  /\ requests = 0
  /\ sample \in
       [ pc : {"drawn"},
         lat : {Num(407128)},
         lng : {Num(-740060)},
         position : SamplePositions,
         rnd : [1..5 -> 0..RandSteps],
         point : {Undef} ]
  /\ ui = RiskMapUnmounted
  /\ page = IndexInitial

\* the body of the inner loop for the sampled position and draws
GeneratePoint ==
  /\ sample.pc = "drawn"
  /\ sample' = [ sample EXCEPT
                   !.pc = "generated",
                   !.point = SatellitePoint(sample.lat, sample.lng,
                                            sample.position[1],
                                            sample.position[2],
                                            sample.rnd, clock) ]
  /\ UNCHANGED <<satellite_data, ing, wh, rng, clock, requests, ui, page>>

NextPoint == GeneratePoint

SpecPoint == InitPoint /\ [][NextPoint]_vars

(***************************************************************************)
(* The page with RiskMap, while a webhook delivery is served               *)
(***************************************************************************)
\* the result of analyze-location that the page holds as riskData
Analysis(latitude, longitude, overallScore) ==
  [latitude |-> latitude, longitude |-> longitude,
   overallScore |-> overallScore]
\* New York and a center 0.03 degree north of it
Analyses ==
  { Analysis(Num(407128), Num(-740060), 62),
    Analysis(Num(407428), Num(-740060), 62) }

\* the table after an earlier run over twice the location New York
TableBefore ==
  << FetchCall(NewYork.lat, NewYork.lng, RngPeriod - 1, 1),
     FetchCall(NewYork.lat, NewYork.lng,
               (RngPeriod - 1 + gridSize * gridSize) % RngPeriod, 2) >>
\* the delivery that is being served when the page is opened
EnvelopeInProgress ==
  Envelope(Message(Base64(JsonText(
    Payload("new_sentinel_data",
            EventLocation(Num(407128), Num(-740060))))), "m1"))

InitUI ==
  /\ satellite_data = TableBefore
  /\ ing = IngestIdle
  /\ wh = WebhookEntry("configured", EnvelopeInProgress, 3)
  /\ rng = (RngPeriod - 1 + 2 * gridSize * gridSize) % RngPeriod
  /\ clock = 4
  /\ requests = MaxRequests
  /\ sample = NoSample
  /\ ui = RiskMapUnmounted
  /\ page = IndexInitial

\* setRiskData with the result of an analysis: RiskMap is rendered with it
ShowAnalysis ==
  /\ ui.analyses < MaxAnalyses
  /\ \E a \in Analyses :
       /\ ui' = [ RiskMapRender(ui, a, ui.analyses + 1) EXCEPT
                    !.analyses = ui.analyses + 1 ]
       /\ page' = [ page EXCEPT !.riskData = RiskData(a) ]
  /\ UNCHANGED <<satellite_data, ing, wh, rng, clock, requests, sample>>

\* the rows of the table the page is opened over
TableBeforeRows == TableRows(TableBefore)

\* the database answers an overlay query, or the query fails
SatelliteQueryReturns ==
  /\ ui.satelliteRequests # {}
  /\ \E rows \in { IF satellite_data = TableBefore THEN TableBeforeRows
                    ELSE TableRows(satellite_data) } :
       \E r \in ui.satelliteRequests, error \in BOOLEAN, ties \in TieOrders :
         \E data \in { IF error THEN <<>>
                       ELSE SelectSatelliteData(rows, r.latitude,
                                                r.longitude, ties) } :
           ui' = SatelliteQueryAnswered(ui, r, data, error)
  /\ UNCHANGED <<satellite_data, ing, wh, rng, clock, requests, sample,
                 page>>

\* enrich-demographics answers with a grid, with no grid, or fails
DemographicsReturns ==
  /\ \E r \in ui.demographicsRequests, error \in BOOLEAN :
       \E gridData \in (IF error THEN {<<>>} ELSE {<<>>, <<GridPoint(r)>>}) :
         ui' = DemographicsAnswered(ui, r, gridData, error)
  /\ UNCHANGED <<satellite_data, ing, wh, rng, clock, requests, sample,
                 page>>

\* the user clicks 'Satellite Data'
ToggleSatelliteLayer ==
  /\ ui.mounted
  /\ ui' = SatelliteButtonClicked(ui)
  /\ UNCHANGED <<satellite_data, ing, wh, rng, clock, requests, sample,
                 page>>

NextUI ==
  \/ ShowAnalysis
  \/ SatelliteQueryReturns
  \/ DemographicsReturns
  \/ ToggleSatelliteLayer
  \/ IngestFetch
  \/ InsertReturns
  \/ IngestRespond
  \/ WebhookFetchFails
  \/ WebhookNotJson
  \/ WebhookInvoke
  \/ WebhookResume

SpecUI == InitUI /\ [][NextUI]_vars

\* ---------------------------------------------------------------------
\* The Index page with its RiskMap over a table that does not change:
\* analyses asked for one after another, or while earlier ones are pending.
\* ---------------------------------------------------------------------
MaxCalls == 2

\* the locations the user asks for: New York, with rows in the table, and
\* Los Angeles, with none
PageLocations == {NewYork, LosAngeles}
\* the profile analyze-location returns for a request
Profile(r) ==
  Analysis(r.latitude, r.longitude, IF r.latitude = NewYork.lat THEN 62 ELSE 48)

InitPage ==
  /\ satellite_data = TableBefore
  /\ ing = IngestIdle
  /\ wh = WebhookIdle
  /\ rng = (RngPeriod - 1 + 2 * gridSize * gridSize) % RngPeriod
  /\ clock = 3
  /\ requests = MaxRequests
  /\ sample = NoSample
  /\ ui = RiskMapUnmounted
  /\ page = IndexInitial

\* the user submits a location
AnalyzeLocation ==
  /\ page.calls < MaxCalls
  /\ \E location \in PageLocations :
       page' = AnalyzeClicked(page, location.lat, location.lng)
  /\ UNCHANGED <<satellite_data, ing, wh, rng, clock, requests, sample, ui>>

\* analyze-location answers: with a profile (RiskMap is rendered with it),
\* without a body, or with an error
AnalysisReturns ==
  \E r \in page.analyzeRequests, error \in BOOLEAN :
    \E data \in (IF error THEN {Null} ELSE {Null, Profile(r)}) :
      /\ page' = AnalysisAnswered(page, r, data, error)
      /\ ui' = IF error \/ data \in NoData
                 THEN ui
                 ELSE [ RiskMapRender(ui, page'.riskData, ui.analyses + 1)
                          EXCEPT !.analyses = ui.analyses + 1 ]
      /\ UNCHANGED <<satellite_data, ing, wh, rng, clock, requests, sample>>

\* 'Back to Home': the results section, RiskMap in it, is not rendered any
\* more; what its pending requests answer reaches no component
BackToHome ==
  /\ page.riskData # Null
  /\ page' = BackToHomeClicked(page)
  /\ ui' = RiskMapUnmounted
  /\ UNCHANGED <<satellite_data, ing, wh, rng, clock, requests, sample>>

NextPage ==
  \/ AnalyzeLocation
  \/ AnalysisReturns
  \/ BackToHome
  \/ SatelliteQueryReturns
  \/ DemographicsReturns
  \/ ToggleSatelliteLayer

SpecPage == InitPage /\ [][NextPage]_vars

\* ---------------------------------------------------------------------
\* Pub/Sub delivering one message more than once.  The handler keeps nothing
\* between requests (index.ts:25): a delivery of a message that was answered
\* before is served like the first.  `acks` holds the answers that the
\* publisher received for the earlier deliveries of the message.
\* ---------------------------------------------------------------------
MaxDeliveries == 2

EnvelopeLosAngeles ==
  Envelope(Message(Base64(JsonText(
    Payload("new_sentinel_data",
            EventLocation(Num(340522), Num(-1182437))))), "m1"))

Delivery(env, body, acks, now) ==
  [ acks |-> acks ] @@ WebhookEntry(env, body, now)

\* a message that was answered before is answered again from that answer
Redelivery_Deduplicated(w, now) ==
  [ w EXCEPT !.acks = Append(w.acks, w.response) ]
\* the same envelope posted again
Redelivery(w, now) ==
  Delivery(w.env, w.body, Append(w.acks, w.response), now)

InitRedelivery ==
  /\ satellite_data = <<>>
  /\ ing = IngestIdle
  /\ \E body \in {EnvelopeInProgress, EnvelopeLosAngeles} :
       wh = Delivery("configured", body, <<>>, 0)
  /\ rng \in Seeds
  /\ clock = 1
  /\ requests = MaxRequests
  /\ sample = NoSample
  /\ ui = RiskMapUnmounted
  /\ page = IndexInitial

Redeliver ==
  /\ wh.pc = "done"
  /\ Len(wh.acks) + 1 < MaxDeliveries
  /\ wh' = Redelivery(wh, clock)
  /\ clock' = clock + 1
  /\ ing' = IngestIdle
  /\ UNCHANGED <<satellite_data, rng, requests, sample, ui, page>>

NextRedelivery ==
  \/ Redeliver
  \/ WebhookFetchFails
  \/ WebhookNotJson
  \/ WebhookInvoke
  \/ WebhookResume
  \/ IngestFetch
  \/ InsertReturns
  \/ IngestRespond

SpecRedelivery == InitRedelivery /\ [][NextRedelivery]_vars

(***************************************************************************)
(* Properties                                                              *)
(***************************************************************************)
\* every element of the list is an object, as the interface of the request
\* declares ({lat, lng}[])
AllObjects(items) == \A k \in 1..Len(items) : items[k].tag = "object"
\* the positions of the log whose insert returned no error
Stored(log) == {k \in 1..Len(log) : ~log[k].error}
\* the ingestion handler has answered a request it could parse, with its
\* credentials configured
IngestServed ==
  ing.pc = "done" /\ ing.body.tag = "object" /\ ing.env = "configured"

\* C1: every response of the satellite-webhook handler has HTTP status 200,
\* whether the envelope was rejected, the client could not be built, the
\* ingestion call failed or did not answer JSON, or the event was processed.
C1_WebhookAlways200 == wh.pc = "done" => wh.response.status = 200
\* a delivery that ended in the catch branch
C1_Witness ==
  /\ wh.pc = "done"
  /\ wh.response.success = FALSE
  /\ wh.exception = Str("error sending request")

\* C2: the success field of the webhook response is the success that the
\* invoked ingestion reported: false when ingestion answered 500 with
\* success:false.
C2_SuccessIsIngestionSuccess ==
  (wh.pc = "done" /\ wh.ingestResult # Undef)
    => wh.response.success = wh.ingestResult.success

\* C3: for every combination of draws, extremes included, each of the four
\* risk indicators of a generated point is an integer between 0 and 100.
C3_RiskIndicatorsInRange ==
  sample.pc = "generated" =>
    /\ sample.point.risk_indicators.flood_risk \in 0..100
    /\ sample.point.risk_indicators.drought_risk \in 0..100
    /\ sample.point.risk_indicators.wildfire_risk \in 0..100
    /\ sample.point.risk_indicators.storm_risk \in 0..100
\* hottest and least vegetated draw: the wildfire indicator is at its bound
C3_Witness ==
  /\ sample.pc = "generated"
  /\ sample.rnd[4] = RandSteps
  /\ sample.rnd[2] = 0
  /\ sample.point.risk_indicators.wildfire_risk = 100

\* C4: a served request whose locations array holds K location objects
\* (K >= 0) is answered with locationsProcessed = K, failed locations
\* counted, and dataPointsInserted = 49 * (number of inserts without error).
C4_CountsOfLocationList ==
  (IngestServed /\ ing.body.locations.tag = "array"
     /\ AllObjects(ing.body.locations.items))
    => /\ ing.response.locationsProcessed
            = Num(Len(ing.body.locations.items))
       /\ ing.response.dataPointsInserted
            = Num(49 * Cardinality(Stored(ing.log)))
\* three locations, one insert failed
C4_Witness ==
  /\ IngestServed
  /\ ing.body.locations.tag = "array"
  /\ Len(ing.body.locations.items) = 3
  /\ Cardinality(Stored(ing.log)) = 2
  /\ ing.response.dataPointsInserted = Num(98)

\* C5: an insert that returns an error does not end the run.  When an
\* awaited insert answers, with or without an error, the handler is back at
\* the head of the loop with the next location and no exception; and a served
\* request over location objects has an insert attempted for every location,
\* in order, and is answered 200 with success:true, also when every insert
\* failed.
C5_AllAttempted ==
  (IngestServed /\ AllObjects(ing.locationsToProcess))
    => /\ Len(ing.log) = Len(ing.locationsToProcess)
       /\ \A k \in 1..Len(ing.log) :
            ing.log[k].location = ing.locationsToProcess[k]
       /\ ing.response.status = 200
       /\ ing.response.success = TRUE
C5_InsertAnswered ==
  ing.pc = "insert"
    => /\ ing'.pc \in {"insert", "loop"}
       /\ ing'.exception = Undef
       /\ ing'.response = Undef
       /\ ing'.pc = "loop" => ing'.i = ing.i + 1
\* C5, both parts: the invariant of the finished run and the step of the
\* answered insert
C5_InsertErrorDoesNotAbort == []C5_AllAttempted /\ [][C5_InsertAnswered]_vars
\* the default run with every insert failed
C5_Witness ==
  /\ ing.pc = "done"
  /\ Len(ing.log) = 5
  /\ \A k \in 1..Len(ing.log) : ing.log[k].error
  /\ ing.response.success = TRUE
  /\ ing.response.dataPointsInserted = Num(0)

\* C6: an exception at the top level of the ingestion handler, such as a
\* body that is not JSON, is answered with status 500 and the body
\* {success:false, error, timestamp}, never with 200.
C6_ExceptionGives500 ==
  (ing.pc = "done" /\ (ing.exception # Undef \/ ing.body = EmptyBody))
    => /\ ing.response.status = 500
       /\ ing.response.success = FALSE
       /\ ing.response.error = ing.exception
       /\ ing.response.error.tag = "string"
       /\ ing.response.timestamp.tag = "number"
       /\ ing.response.locationsProcessed = Undef
       /\ ing.response.dataPointsInserted = Undef
       /\ ing.response.message = Undef
\* a request without a parsable body
C6_Witness ==
  /\ ing.pc = "done"
  /\ ing.body = EmptyBody
  /\ ing.response.status = 500

\* C7: a served request without locations that gives latitude and longitude
\* as numbers, whatever their values, processes exactly that location:
\* locationsProcessed = 1 and, if the insert succeeds, dataPointsInserted = 49
\* and success = true.
C7_CoordinatesGiveOneLocation ==
  (IngestServed /\ ing.body.locations = Undef
     /\ ing.body.latitude.tag = "number" /\ ing.body.longitude.tag = "number")
    => /\ ing.locationsToProcess
            = << Loc(ing.body.latitude, ing.body.longitude) >>
       /\ ing.response.locationsProcessed = Num(1)
       /\ (~ing.log[1].error
             => /\ ing.response.dataPointsInserted = Num(49)
                /\ ing.response.success = TRUE)

\* the five documented cities, in the documented order
DocumentedCities ==
  << Loc(Num(407128), Num(-740060)),
     Loc(Num(340522), Num(-1182437)),
     Loc(Num(297604), Num(-953698)),
     Loc(Num(257617), Num(-801918)),
     Loc(Num(377749), Num(-1224194)) >>

\* C8: a served request with no locations, no latitude and no longitude
\* processes the five default locations (New York, Los Angeles, Houston,
\* Miami, San Francisco) in that order: locationsProcessed = 5, and
\* dataPointsInserted = 245 when all inserts succeed.
C8_DefaultLocations ==
  (IngestServed /\ ing.body.locations = Undef
     /\ ing.body.latitude = Undef /\ ing.body.longitude = Undef)
    => /\ ing.locationsToProcess = DocumentedCities
       /\ Len(ing.log) = 5
       /\ \A k \in 1..5 : ing.log[k].location = DocumentedCities[k]
       /\ ing.response.locationsProcessed = Num(5)
       /\ (Stored(ing.log) = 1..5
             => /\ ing.response.dataPointsInserted = Num(245)
                /\ Len(satellite_data) >= 5
                /\ \A k \in 1..5 :
                     LET batch == satellite_data[Len(satellite_data) - 5 + k]
                     IN  /\ batch.lat = DocumentedCities[k].lat
                         /\ batch.lng = DocumentedCities[k].lng)
\* the default run with every insert stored
C8_Witness ==
  /\ IngestServed
  /\ ing.body.locations = Undef
  /\ ing.body.latitude = Undef
  /\ ing.body.longitude = Undef
  /\ Stored(ing.log) = 1..5
  /\ ing.response.dataPointsInserted = Num(245)

\* C9: a scheduled request that sends no body is served as a default run:
\* the five default locations are processed and the answer is 200 with
\* success:true.
C9_NoBodyIsDefaultRun ==
  (ing.pc = "done" /\ ing.body = EmptyBody /\ ing.env = "configured")
    => /\ ing.response.status = 200
       /\ ing.response.success = TRUE
       /\ ing.locationsToProcess = DocumentedCities

EventWithLocation(body) ==
  /\ body.tag = "object"
  /\ Truthy(body.message)
  /\ body.message.data.tag = "base64"
  /\ body.message.data.text.tag = "json"
  /\ body.message.data.text.value.tag = "object"
  /\ body.message.data.text.value.location.tag = "object"
  /\ body.message.data.text.value.location.latitude.tag = "number"
  /\ body.message.data.text.value.location.longitude.tag = "number"

\* C11: a delivery whose payload has location {latitude, longitude} invokes
\* ingestion with those coordinates, trigger 'pubsub' and source
\* 'google-cloud'; the ingestion it reaches processes exactly that location,
\* and the webhook reports dataPointsProcessed = 49 when the insert succeeds.
C11_WebhookRelaysLocation ==
  (wh.pc = "done" /\ wh.ingestResult # Undef /\ EventWithLocation(wh.body)
     /\ ing.env = "configured")
    => \A location \in {wh.body.message.data.text.value.location} :
         /\ ing.caller = "webhook"
         /\ ing.body = Body(Str("pubsub"), Str("google-cloud"),
                            location.latitude, location.longitude, Undef)
         /\ ing.locationsToProcess
              = << Loc(location.latitude, location.longitude) >>
         /\ Len(ing.log) = 1
         /\ (~ing.log[1].error
               => wh.response.dataPointsProcessed = Num(49))

\* the three malformed envelopes: no message, data that atob rejects, a
\* decoded text that JSON.parse rejects
MalformedEnvelope(body) ==
  /\ body.tag = "object"
  /\ \/ ~Truthy(body.message)
     \/ body.message.data.tag # "base64"
     \/ body.message.data.text.tag # "json"

\* C12: a malformed envelope (no message, data that is not base64, decoded
\* data that is not JSON) is answered at once with status 200 and the body
\* {success:false, error, timestamp}; the ingestion function is not invoked
\* and the table is left as it was.
C12_Rejected ==
  MalformedEnvelope(wh.body)
    => /\ wh.pc = "done"
       /\ wh.response.status = 200
       /\ wh.response.success = FALSE
       /\ wh.response.error.tag = "string"
       /\ wh.response.timestamp.tag = "number"
       /\ wh.response.dataPointsProcessed = Undef
       /\ wh.ingestBody = Undef
       /\ wh.ingestResult = Undef
       /\ ing = IngestIdle
C12_NoRowAdded ==
  (MalformedEnvelope(wh.body) \/ MalformedEnvelope(wh'.body))
    => satellite_data' = satellite_data
C12_MalformedEnvelopeRejected == []C12_Rejected /\ [][C12_NoRowAdded]_vars
\* data that atob rejects
C12_Witness ==
  /\ wh.pc = "done"
  /\ wh.body = Envelope(Message(NotBase64, "m1"))
  /\ wh.response.status = 200
  /\ wh.response.success = FALSE
  /\ ing = IngestIdle


\* C17: an ingestion request that arrives while the service credentials are
\* missing is answered 500 with success:false; no location is processed, no
\* insert is issued and the table is left as it was.
C17_Failed ==
  (ing.pc # "idle" /\ ing.env = "missing")
    => /\ ing.pc = "done"
       /\ ing.response.status = 500
       /\ ing.response.success = FALSE
       /\ ing.exception.tag = "string"
       /\ ing.locationsToProcess = <<>>
       /\ ing.log = <<>>
       /\ ing.satelliteData = NoCall
       /\ ing.response.locationsProcessed = Undef
       /\ ing.response.dataPointsInserted = Undef
C17_NoRowInserted ==
  (ing.env = "missing" \/ ing'.env = "missing")
    => satellite_data' = satellite_data
C17_MissingCredentialsFailRequest ==
  []C17_Failed /\ [][C17_NoRowInserted]_vars
\* a request with a location list, credentials missing
C17_Witness ==
  /\ ing.pc = "done"
  /\ ing.env = "missing"
  /\ ing.body.tag = "object"
  /\ ing.body.locations.tag = "array"
  /\ ing.exception = Str("supabaseUrl is required.")
  /\ ing.response.status = 500

\* C18: the four measurements of a generated point, in hundredths after the
\* rounding to two decimals: cloud_coverage in [0, 30], vegetation_index in
\* [0.2, 0.8], water_index in [-0.3, 0.2], temperature in [15, 30]; the two
\* indices within [-1, 1].
C18_MeasurementRanges ==
  sample.pc = "generated" =>
    /\ sample.point.cloud_coverage \in 0..3000
    /\ sample.point.vegetation_index \in 20..80
    /\ sample.point.water_index \in -30..20
    /\ sample.point.temperature \in 1500..3000
    /\ sample.point.vegetation_index \in -100..100
    /\ sample.point.water_index \in -100..100
\* the upper end of the cloud range with the lower end of the water range
C18_Witness ==
  /\ sample.pc = "generated"
  /\ sample.rnd[1] = RandSteps
  /\ sample.rnd[3] = 0
  /\ sample.point.cloud_coverage = 3000
  /\ sample.point.water_index = -30

\* C19: the four risk indicators of a generated point are the documented
\* closed forms of the point's own draws (cloud, veg, water, temp, as
\* numerators over Den, and the extra draw u in [0, 30)), clamped to
\* [0, 100] and rounded to the nearest integer.
C19_ClosedForms ==
  sample.pc = "generated" =>
    LET cloud == (sample.rnd[1] * 30 * Den) \div RandSteps
        veg == (2 * Den + (sample.rnd[2] * 6 * Den) \div RandSteps) \div 10
        water == ((sample.rnd[3] * 5 * Den) \div RandSteps - 3 * Den) \div 10
        temp == 15 * Den + (sample.rnd[4] * 15 * Den) \div RandSteps
        u == (sample.rnd[5] * 30 * Den) \div RandSteps
        Clamped(n) == IF n < 0 THEN 0 ELSE IF n > 100 * Den THEN 100 * Den
                      ELSE n
        Nearest(m, n) ==
          (2 * m - 1) * Den <= 2 * Clamped(n)
            /\ 2 * Clamped(n) <= (2 * m + 1) * Den
        risk == sample.point.risk_indicators
    IN  /\ Nearest(risk.flood_risk,
                   (10 * water + 3 * Den) * 10 + ((100 * Den - cloud) * 3) \div 10)
        /\ Nearest(risk.drought_risk, (Den - veg) * 100)
        /\ Nearest(risk.wildfire_risk, temp * 2 + (Den - veg) * 50)
        /\ Nearest(risk.storm_risk, cloud * 2 + u)
\* a point whose storm indicator owes 10 of its 30 to the extra draw
C19_Witness ==
  /\ sample.pc = "generated"
  /\ sample.rnd[1] = 1
  /\ sample.rnd[5] = 1
  /\ sample.point.risk_indicators.storm_risk = 30

\* C20: the locations are handled one after another in list order.  While an
\* insert is outstanding it is the insert of location i and the inserts of
\* all earlier locations, and only they, have answered; and a step that
\* generates points does so from the head of the loop, for the first location
\* whose insert has not been issued.
C20_OneOutstanding ==
  ing.pc = "insert"
    => /\ Len(ing.log) = ing.i - 1
       /\ \A k \in 1..Len(ing.log) :
            ing.log[k].location = ing.locationsToProcess[k]
       /\ ing.satelliteData.lat = ing.locationsToProcess[ing.i].lat
       /\ ing.satelliteData.lng = ing.locationsToProcess[ing.i].lng
C20_GenerationAfterReturn ==
  (ing'.pc = "insert" /\ ing' # ing)
    => /\ ing.pc = "loop"
       /\ ing.satelliteData = NoCall
       /\ ing'.i = ing.i
       /\ ing'.i = Len(ing.log) + 1
       /\ ing'.log = ing.log
C20_Sequential == []C20_OneOutstanding /\ [][C20_GenerationAfterReturn]_vars
\* the insert of the second of two different locations is outstanding
C20_Witness ==
  /\ ing.pc = "insert"
  /\ ing.i = 2
  /\ Len(ing.log) = 1
  /\ ing.locationsToProcess = <<NewYork, LosAngeles>>
  /\ ing.satelliteData.lat = LosAngeles.lat


\* C13: satellite_data is append-only.  Every step of the ingestion handler,
\* of the webhook handler and of RiskMap leaves the table as it is or adds
\* batches of rows at its end: the rows that were there stay, unchanged and
\* in place, and the number of rows does not decrease.
C13_AppendOnly ==
  [][ /\ Len(satellite_data') >= Len(satellite_data)
      /\ SubSeq(satellite_data', 1, Len(satellite_data)) = satellite_data
    ]_vars
\* a batch was added by the delivery and the overlay query has read rows
C13_Witness ==
  /\ Len(satellite_data) = Len(TableBefore) + 1
  /\ wh.pc = "done"
  /\ ui.query.request # Undef
  /\ Len(ui.query.data) > 0

\* C14: the 'Satellite Data' button switches the overlay: once satellite
\* data are loaded and the map is rendered, the satellite markers are on the
\* map exactly when showSatelliteLayer is true.
C14_OverlayFollowsToggle ==
  (ui.mounted /\ Len(ui.satelliteData) > 0 /\ ui.mapInstance.tag # "null")
    => (ui.showSatelliteLayer
          <=> Len(ui.mapInstance.satelliteMarkers) > 0)

\* C15: the data of an answered overlay query are at most 100 rows of the
\* table, each inside the box of 0.05 degree around the center of the
\* request, newest first; they are all rows of the box when these are at
\* most 100, and no row of the box that was left out is newer than a
\* returned one.
C15_QueryResult ==
  (ui'.query # ui.query /\ ~ui'.query.error)
    => \A rows \in {TableRows(satellite_data)} :
       \A data \in {ui'.query.data} :
       \A center \in {ui'.query.request} :
       \A inBox \in {{n \in 1..Len(rows) :
                        InBox(rows[n], center.latitude, center.longitude)}} :
       \A returned \in {{data[k].id : k \in 1..Len(data)}} :
         /\ Len(data) <= 100
         /\ \A k \in 1..Len(data) :
              /\ data[k].latitude.v >= center.latitude.v - 500
              /\ data[k].latitude.v <= center.latitude.v + 500
              /\ data[k].longitude.v >= center.longitude.v - 500
              /\ data[k].longitude.v <= center.longitude.v + 500
         /\ Cardinality(returned) = Len(data)
         /\ returned \subseteq inBox
         /\ Len(data) = Min(100, Cardinality(inBox))
         /\ \A k \in 1..(Len(data) - 1) :
              data[k].acquisition_time.t >= data[k + 1].acquisition_time.t
         /\ \A n \in inBox \ returned : \A k \in 1..Len(data) :
              rows[n].acquisition_time <= data[k].acquisition_time.t
C15_BoundingBoxQuery == [][C15_QueryResult]_vars
\* 147 rows in the box: the two newest batches and two rows of the oldest
C15_Witness ==
  /\ Len(satellite_data) = 3
  /\ ui.query.request # Undef
  /\ ui.query.request.latitude = Num(407128)
  /\ Len(ui.query.data) = 100
  /\ ui.query.data[100].acquisition_time.t = 1
  /\ ui.query.data[1].acquisition_time.t > 2

C21_OneInsertPerLocation ==
  (IngestServed /\ AllObjects(ing.locationsToProcess))
    => /\ Len(ing.log) = Len(ing.locationsToProcess)
       /\ \A k \in 1..Len(ing.log) :
            /\ ing.log[k].location = ing.locationsToProcess[k]
            /\ ing.log[k].points = 49
       /\ \A stored \in {Stored(ing.log)} :
            /\ Len(satellite_data) >= Cardinality(stored)
            /\ \A k \in stored :
                 \E n \in 1..Len(satellite_data) :
                   /\ satellite_data[n].lat = ing.log[k].location.lat
                   /\ satellite_data[n].lng = ing.log[k].location.lng
C21_FailedInsertAddsNothing ==
  (ing.pc = "insert" /\ ing'.pc = "loop")
    => /\ Len(ing'.log) = Len(ing.log) + 1
       /\ ing'.i = ing.i + 1
       /\ IF ing'.log[Len(ing'.log)].error
            THEN satellite_data' = satellite_data
            ELSE satellite_data' = Append(satellite_data, ing.satelliteData)
C21_InsertsNotRetried ==
  []C21_OneInsertPerLocation /\ [][C21_FailedInsertAddsNothing]_vars
\* two locations, the insert of the first failed: one batch, of the second
C21_Witness ==
  /\ IngestServed
  /\ ing.locationsToProcess = <<NewYork, LosAngeles>>
  /\ Len(ing.log) = 2
  /\ ing.log[1].error
  /\ ~ing.log[2].error
  /\ Len(satellite_data) = 1
  /\ satellite_data[1].lat = LosAngeles.lat

\* C26: the clamp is never active.  For every combination of draws the four
\* values before the clamp lie within [0, 100], and the indicators are
\* flood_risk in [21, 80], drought_risk in [20, 80], wildfire_risk in
\* [40, 100], storm_risk in [0, 90], with wildfire_risk at least
\* 30 + drought_risk / 2 up to the rounding of the two.
C26_ClampNeverActive ==
  sample.pc = "generated" =>
    LET kc == sample.rnd[1]
        kv == sample.rnd[2]
        kw == sample.rnd[3]
        kt == sample.rnd[4]
        ku == sample.rnd[5]
        flood == (waterIndex(kw) + (3 * Den) \div 10) * 100
                   + ((100 * Den - cloudCoverage(kc)) * 3) \div 10
        drought == (1 * Den - vegetationIndex(kv)) * 100
        wildfire == temperature(kt) * 2 + (1 * Den - vegetationIndex(kv)) * 50
        storm == cloudCoverage(kc) * 2 + (ku * 30 * Den) \div RandSteps
        risk == sample.point.risk_indicators
    IN  /\ flood >= 0 /\ flood <= 100 * Den
        /\ drought >= 0 /\ drought <= 100 * Den
        /\ wildfire >= 0 /\ wildfire <= 100 * Den
        /\ storm >= 0 /\ storm <= 100 * Den
        /\ risk.flood_risk \in 21..80
        /\ risk.drought_risk \in 20..80
        /\ risk.wildfire_risk \in 40..100
        /\ risk.storm_risk \in 0..90
        /\ 2 * risk.wildfire_risk + 2 >= 60 + risk.drought_risk
\* the hottest, least vegetated point: wildfire_risk reaches 100 unclamped
C26_Witness ==
  /\ sample.pc = "generated"
  /\ sample.rnd[4] = RandSteps
  /\ sample.rnd[2] = 0
  /\ sample.point.risk_indicators.wildfire_risk = 100
  /\ sample.point.risk_indicators.drought_risk = 80
  /\ temperature(sample.rnd[4]) * 2
       + (1 * Den - vegetationIndex(sample.rnd[2])) * 50 = 100 * Den

\* the payload of the delivery has no location, or one without both
\* coordinates
EventWithoutLocation(body) ==
  /\ body.tag = "object"
  /\ Truthy(body.message)
  /\ body.message.data.tag = "base64"
  /\ body.message.data.text.tag = "json"
  /\ body.message.data.text.value.tag = "object"
  /\ \A location \in {body.message.data.text.value.location} :
       \/ location.tag # "object"
       \/ location.latitude.tag # "number"
       \/ location.longitude.tag # "number"

\* C28: a delivery whose payload has no location, or lacks a coordinate,
\* still invokes ingestion; the ingestion it reaches runs over the five
\* default locations, and the webhook answers success:true, with
\* dataPointsProcessed = 245 when all inserts succeed.
C28_NoLocationIsDefaultRun ==
  (wh.pc = "done" /\ wh.ingestResult # Undef /\ EventWithoutLocation(wh.body)
     /\ ing.env = "configured")
    => /\ ing.caller = "webhook"
       /\ ing.pc = "done"
       /\ ing.body = wh.ingestBody
       /\ ing.body.trigger = Str("pubsub")
       /\ ing.locationsToProcess = DocumentedCities
       /\ Len(ing.log) = 5
       /\ wh.response.status = 200
       /\ wh.response.success = TRUE
       /\ (Stored(ing.log) = 1..5
             => wh.response.dataPointsProcessed = Num(245))
\* a location with a latitude only, every insert stored
C28_Witness ==
  /\ wh.pc = "done"
  /\ wh.body.tag = "object"
  /\ EventWithoutLocation(wh.body)
  /\ wh.body.message.data.text.value.location.tag = "object"
  /\ wh.ingestResult # Undef
  /\ Stored(ing.log) = 1..5
  /\ wh.response.dataPointsProcessed = Num(245)

\* C29: an invocation that is answered with status 500 and success:false has
\* stored no rows: none of its inserts returned without an error.
C29_Status500StoredNothing ==
  (ing.pc = "done" /\ ing.response.status = 500)
    => /\ ing.response.success = FALSE
       /\ Stored(ing.log) = {}


\* C27: the webhook is not idempotent per messageId.  After n deliveries of
\* one message, the table holds one batch of 49 rows of the message's
\* location for every delivery that was answered with 49 points processed,
\* so n batches, 49 * n rows, when every insert succeeded; every delivery
\* that reached the ingestion function has its own invocation.
C27_Answers == Append(wh.acks, wh.response)
C27_Processed ==
  { k \in 1..Len(C27_Answers) :
      /\ C27_Answers[k].success = TRUE
      /\ C27_Answers[k].dataPointsProcessed = Num(49) }
C27_NotIdempotent ==
  wh.pc = "done" =>
    /\ Len(satellite_data) = Cardinality(C27_Processed)
    /\ \A n \in 1..Len(satellite_data) :
         /\ Len(dataPoints(satellite_data[n])) = 49
         /\ satellite_data[n].lat
              = wh.body.message.data.text.value.location.latitude
    /\ (C27_Processed = 1..Len(C27_Answers)
          => Len(Rows) = 49 * Len(C27_Answers))
    /\ \A k \in 1..Len(C27_Answers) :
         C27_Answers[k].success = TRUE =>
           C27_Answers[k].messageId = Str("m1")
    /\ (wh.response.success = TRUE
          => /\ ing.pc = "done"
             /\ ing.caller = "webhook"
             /\ ing.body = wh.ingestBody)
\* the message delivered twice, both inserts stored: 98 rows
C27_Witness ==
  /\ wh.pc = "done"
  /\ Len(wh.acks) = 1
  /\ wh.acks[1].dataPointsProcessed = Num(49)
  /\ wh.acks[1].messageId = wh.response.messageId
  /\ wh.response.dataPointsProcessed = Num(49)
  /\ Len(satellite_data) = 2
  /\ Len(Rows) = 98
  /\ satellite_data[1].lat = satellite_data[2].lat


\* C22: the held profile changes only when an analyze-location call answers
\* with a profile (riskData becomes that profile) or by 'Back to Home'
\* (riskData becomes null); a call that fails leaves riskData as it was, and
\* every call that has answered, either way, leaves isAnalyzing false.
C22_Answered == page.analyzeRequests \ page'.analyzeRequests
C22_Step ==
  /\ page'.riskData # page.riskData
       => \/ /\ page'.riskData = Null
             /\ C22_Answered = {}
             /\ ~ui'.mounted
          \/ \E r \in C22_Answered :
               /\ page'.riskData = Profile(r)
               /\ page'.toast = "success"
  /\ \A r \in C22_Answered :
       /\ page'.isAnalyzing = FALSE
       /\ page'.toast \in {"success", "error"}
       /\ page'.toast = "error" => page'.riskData = page.riskData
C22_RiskDataFrame ==
  [](page.analyzeRequests = {} => page.isAnalyzing = FALSE)
    /\ [][C22_Step]_vars
\* a profile is held, a later call has failed and left it
C22_Witness ==
  /\ page.calls = 2
  /\ page.analyzeRequests = {}
  /\ page.toast = "error"
  /\ page.riskData = Profile(Request(1, NewYork.lat, NewYork.lng))
  /\ page.isAnalyzing = FALSE
  /\ ui.mounted

\* C23: a response of enrich-demographics to a request that is not the one
\* issued last leaves gridData as it is, so that after all responses
\* gridData is the response to the request issued last.
C23_Step ==
  \A r \in ui.demographicsRequests \ ui'.demographicsRequests :
    (ui'.mounted /\ r.id < ui.analyses) => ui'.gridData = ui.gridData
C23_LatestResponseWins == [][C23_Step]_vars

\* C24: when the overlay query for the current center has answered without
\* an error and no other query is pending, every point of satelliteData is
\* within 0.05 degree of the current center in latitude and in longitude.
C24_OverlayOfCurrentCenter ==
  ( /\ ui.mounted
    /\ ui.satelliteRequests = {}
    /\ ui.query.request # Undef
    /\ ~ui.query.error
    /\ ui.query.request.latitude = ui.latitude
    /\ ui.query.request.longitude = ui.longitude )
    => \A k \in 1..Len(ui.satelliteData) :
         /\ Abs(ui.satelliteData[k].latitude.v - ui.latitude.v)
              <= BoxHalfWidth
         /\ Abs(ui.satelliteData[k].longitude.v - ui.longitude.v)
              <= BoxHalfWidth

\* C25: while RiskMap is shown, loading = false implies that no
\* enrich-demographics request is pending.
C25_LoadingCoversRequests ==
  (ui.mounted /\ ~ui.loading) => ui.demographicsRequests = {}

\* C30: the map, with every marker on it, exists only while gridData is not
\* empty; as long as enrich-demographics has given no grid there is no map,
\* whatever showSatelliteLayer and satelliteData are.
C30_MapOnlyWithGrid ==
  /\ ui.mapInstance.tag # "null"
       => /\ ui.mounted
          /\ Len(ui.gridData) > 0
          /\ ui.mapInstance.riskMarkers = ui.gridData
  /\ Len(ui.gridData) = 0 => ui.mapInstance = Null
\* the first analysis got no grid; satellite points are held, the layer is on
C30_Witness ==
  /\ ui.mounted
  /\ ui.analyses = 1
  /\ ui.demographicsRequests = {}
  /\ Len(ui.gridData) = 0
  /\ ui.showSatelliteLayer
  /\ Len(ui.satelliteData) > 0
  /\ ui.mapInstance = Null

====
